---------------------------- MODULE Spec2Model ----------------------------
(***************************************************************************)
(* A model of mcp-servers/cad_verifier_mcp/server.py: the tool dispatcher  *)
(* call_tool and the core functions it routes to (verify_gear,             *)
(* verify_assembly_fit, generate_bom, gear_ratio, center_distance).        *)
(*                                                                         *)
(* Numbers.  Python floats are IEEE-754 binary64.                          *)
(*  - Shaft and hole diameters are decimal literals in hundredths of a     *)
(*    millimetre.  They are converted to binary64 (ParseDecimal), and      *)
(*    subtracted and compared as binary64 (FSub, FLess): the bounds of     *)
(*    the tolerance table are themselves rounded literals, so a decimal    *)
(*    boundary value and the stored bound are different doubles.           *)
(*  - Gear modules and face widths are decimal literals in twentieths of   *)
(*    a millimetre, converted to binary64; products with tooth counts and  *)
(*    the quotient w / m are binary64 operations (FMulInt, FDiv), each the *)
(*    exact result rounded to nearest, ties to even.                       *)
(*  - Money is in cents.  round(x, 2) of a binary64 product whose exact    *)
(*    value is within a few ulps of a whole cent is that cent; weights     *)
(*    are multiples of 1/4 kg, so the only half-cent ties come from the    *)
(*    exactly representable prices and are rounded half-to-even.           *)
(***************************************************************************)
EXTENDS Integers, Sequences, FiniteSets, TLC

VARIABLES
    pc,                 \* "idle": waiting for a request; "done": a response is out
    tool,               \* name of the tool of the request being served
    sent,               \* the argument object as the caller sent it
    args,               \* the caller's argument object after the call
    response,           \* what call_tool produced: a payload or a raised error
    TOLERANCE_GRADES,   \* module global _TOLERANCE_GRADES
    VENDOR_CATALOG,     \* module global _VENDOR_CATALOG
    first               \* an earlier (tool, arguments, response), kept for replay

vars == <<pc, tool, sent, args, response, TOLERANCE_GRADES, VENDOR_CATALOG, first>>

\* An optional argument is <<>> when absent and <<v>> when given.
Get(opt, default) == IF opt = <<>> THEN default ELSE opt[1]

(***************************************************************************)
(* binary64 on a fixed-point frame.  A magnitude is the integer            *)
(* value * 2^FracBits written in base LimbBase: NumLimbs limbs, most       *)
(* significant first.  A double is [neg, mag] with at most PrecisionBits   *)
(* significant bits in mag.  The frame holds every value below 2^IntBits   *)
(* whose last bit is 2^-FracBits or higher: the diameters, their           *)
(* differences, the bounds of the tolerance table, the gear modules, face  *)
(* widths, diameters and quotients.                                        *)
(***************************************************************************)
PrecisionBits == 53

LimbBits == 13

LimbBase == 2 ^ LimbBits

NumLimbs == 6

IntBits == 10

FracBits == NumLimbs * LimbBits - IntBits

ZeroMag == [i \in 1..NumLimbs |-> 0]

RECURSIVE LongDiv(_, _, _, _)
\* limbs i..NumLimbs of the quotient of (rem, digits[i..]) by d, and the remainder
LongDiv(digits, d, i, rem) ==
    IF i > NumLimbs THEN [limbs |-> <<>>, rem |-> rem]
    ELSE LET cur  == rem * LimbBase + digits[i]
             rest == LongDiv(digits, d, i + 1, cur % d)
         IN  [limbs |-> <<cur \div d>> \o rest.limbs, rem |-> rest.rem]

RECURSIVE LimbsAdd(_, _, _)
\* limbs i..Len(a) of a + b (of equal length), and the carry they give to limb i - 1
LimbsAdd(a, b, i) ==
    IF i > Len(a) THEN [limbs |-> <<>>, carry |-> 0]
    ELSE LET low == LimbsAdd(a, b, i + 1)
             d   == a[i] + b[i] + low.carry
         IN  [limbs |-> <<d % LimbBase>> \o low.limbs, carry |-> d \div LimbBase]

RECURSIVE LimbsSub(_, _, _)
\* limbs i..Len(a) of a - b (of equal length), and the borrow they ask of limb i - 1
LimbsSub(a, b, i) ==
    IF i > Len(a) THEN [limbs |-> <<>>, borrow |-> 0]
    ELSE LET low == LimbsSub(a, b, i + 1)
             d   == a[i] - b[i] - low.borrow
         IN  [limbs |-> <<d % LimbBase>> \o low.limbs, borrow |-> IF d < 0 THEN 1 ELSE 0]

\* a < b as magnitudes of equal length: they differ first at a limb where a is smaller
LimbsLess(a, b) ==
    \E i \in 1..Len(a) : a[i] < b[i] /\ \A j \in 1..(i - 1) : a[j] = b[j]

\* position of the leading 1 of mag (bit 0 is the lowest), -1 for zero
Msb(mag) ==
    IF mag = ZeroMag THEN -1
    ELSE LET k   == CHOOSE i \in 1..NumLimbs : mag[i] # 0 /\ \A j \in 1..(i - 1) : mag[j] = 0
             len == CHOOSE n \in 1..LimbBits : 2 ^ (n - 1) <= mag[k] /\ mag[k] < 2 ^ n
         IN  (NumLimbs - k) * LimbBits + len - 1

\* bit j of mag (bit 0 is the lowest)
Bit(mag, j) == (mag[NumLimbs - (j \div LimbBits)] \div (2 ^ (j % LimbBits))) % 2

\* mag rounded at bit s > 0, the last bit kept: to nearest, ties to even;
\* sticky says that nonzero digits follow the frame
RoundAt(mag, sticky, s) ==
    LET li   == NumLimbs - (s \div LimbBits)
        t    == s % LimbBits
        kept == [i \in 1..NumLimbs |->
                   IF i < li THEN mag[i]
                   ELSE IF i = li THEN mag[i] - (mag[i] % (2 ^ t))
                   ELSE 0]
        unit == [i \in 1..NumLimbs |-> IF i = li THEN 2 ^ t ELSE 0]
        tail == sticky \/ \E j \in 0..(s - 2) : Bit(mag, j) = 1
        up   == Bit(mag, s - 1) = 1 /\ (tail \/ Bit(mag, s) = 1)
    IN  IF up THEN LimbsAdd(kept, unit, 1).limbs ELSE kept

\* round-to-nearest, ties-to-even, to PrecisionBits significant bits; a
\* magnitude with no more significant bits than that is kept
RoundNearestEven(mag, sticky) ==
    IF Msb(mag) < PrecisionBits THEN mag
    ELSE RoundAt(mag, sticky, Msb(mag) - (PrecisionBits - 1))

\* a quotient of LongDiv, rounded
RoundedQuotient(q) == RoundNearestEven(q.limbs, q.rem # 0)

\* the double nearest to the decimal n hundredths, n >= 0: n * 2^FracBits / 100
ParseMagnitude(n) ==
    RoundedQuotient(LongDiv([ZeroMag EXCEPT ![1] = n * 2 ^ (LimbBits - IntBits)], 100, 1, 0))

\* float of a decimal literal given in hundredths
ParseDecimal(n) == [neg |-> n < 0, mag |-> ParseMagnitude(IF n < 0 THEN -n ELSE n)]

\* the exact difference x - y on the frame
FSubExact(x, y) ==
    IF x.neg # y.neg
    THEN [neg |-> x.neg, mag |-> LimbsAdd(x.mag, y.mag, 1).limbs]
    ELSE IF LimbsLess(x.mag, y.mag)
    THEN [neg |-> ~x.neg, mag |-> LimbsSub(y.mag, x.mag, 1).limbs]
    ELSE [neg |-> x.neg /\ x.mag # y.mag, mag |-> LimbsSub(x.mag, y.mag, 1).limbs]

\* an exact value of the frame, rounded
Rounded(e) == [neg |-> e.neg, mag |-> RoundNearestEven(e.mag, FALSE)]

\* x - y in binary64: the exact difference, rounded
FSub(x, y) == Rounded(FSubExact(x, y))

\* x < y in binary64
FLess(x, y) ==
    IF x.neg /\ ~y.neg THEN x.mag # ZeroMag \/ y.mag # ZeroMag
    ELSE IF ~x.neg /\ y.neg THEN FALSE
    ELSE IF x.neg THEN LimbsLess(y.mag, x.mag)
    ELSE LimbsLess(x.mag, y.mag)

RECURSIVE LimbsScale(_, _, _)
\* limbs i..Len(a) of a * k for 0 <= k < LimbBase, and the carry out of limb i
LimbsScale(a, k, i) ==
    IF i > Len(a) THEN [limbs |-> <<>>, carry |-> 0]
    ELSE LET low == LimbsScale(a, k, i + 1)
             d   == a[i] * k + low.carry
         IN  [limbs |-> <<d % LimbBase>> \o low.limbs, carry |-> d \div LimbBase]

\* a product of LimbsScale with its carry as first limb
WithCarry(p) == <<p.carry>> \o p.limbs

\* a * k, one limb longer than a
Scaled(a, k) == WithCarry(LimbsScale(a, k, 1))

\* a without its leading zero limbs
Trim(a) ==
    IF \A i \in 1..Len(a) : a[i] = 0 THEN <<>>
    ELSE LET k == CHOOSE i \in 1..Len(a) : a[i] # 0 /\ \A j \in 1..(i - 1) : a[j] = 0
         IN  SubSeq(a, k, Len(a))

(***************************************************************************)
(* Schoolbook division by d, whose first limb is LimbBase / 2 or more.     *)
(* The digit estimated from the two leading limbs of the dividend is at    *)
(* most 2 too large.                                                       *)
(***************************************************************************)
\* the largest of est, est - 1, est - 2 whose product with d is at most cur
Corrected(cur, d, est) ==
    IF ~LimbsLess(cur, Scaled(d, est)) THEN est
    ELSE IF ~LimbsLess(cur, Scaled(d, est - 1)) THEN est - 1
    ELSE est - 2

\* the estimate of cur / d, a digit
Estimate(top) == IF top < LimbBase THEN top ELSE LimbBase - 1

\* the digit cur / d, for cur < d * LimbBase
Digit(cur, d) == Corrected(cur, d, Estimate((cur[1] * LimbBase + cur[2]) \div d[1]))

\* cur - q * d
Remainder(cur, d, q) == IF q = 0 THEN cur ELSE LimbsSub(cur, Scaled(d, q), 1).limbs

\* the digit q before the digits that follow it
Prepend(q, rest) == [limbs |-> <<q>> \o rest.limbs, rem |-> rest.rem]

RECURSIVE DivDigits(_, _, _, _)
\* digit i of the quotient is q; the other digits come from what is left of cur
DivPut(num, d, i, cur, q) == Prepend(q, DivDigits(num, d, i + 1, Remainder(cur, d, q)))

\* digits i.. of the quotient of (rem, num[i..]) by d, and the remainder;
\* rem < d has one limb more than d, the first one 0
DivDigits(num, d, i, rem) ==
    IF i > Len(num) THEN [limbs |-> <<>>, rem |-> rem]
    ELSE DivPut(num, d, i, Tail(rem) \o <<num[i]>>, Digit(Tail(rem) \o <<num[i]>>, d))

\* the last NumLimbs digits of a quotient, rounded; a nonzero remainder is sticky
RoundedDigits(q) ==
    RoundNearestEven(SubSeq(q.limbs, Len(q.limbs) - NumLimbs + 1, Len(q.limbs)),
                     \E i \in 1..Len(q.rem) : q.rem[i] # 0)

\* num / d rounded, for d with its top bit set
DivRounded(num, d) == RoundedDigits(DivDigits(num, d, 1, [i \in 1..(Len(d) + 1) |-> 0]))

\* the power of 2 that brings the top bit of limb to the top of a limb
Normalizer(limb) ==
    2 ^ (CHOOSE n \in 0..(LimbBits - 1) :
            LimbBase <= limb * 2 ^ (n + 1) /\ limb * 2 ^ n < LimbBase)

\* (xmag * LimbBase^NumLimbs) / den, both scaled by scale, rounded
DivScaled(xmag, den, scale) ==
    DivRounded(Scaled(xmag, scale) \o ZeroMag, Tail(Scaled(den, scale)))

\* xmag * 2^FracBits / ymag = (xmag * LimbBase^NumLimbs) / (ymag * 2^IntBits), rounded
DivMagnitude(xmag, den) == DivScaled(xmag, den, Normalizer(den[1]))

\* x / y in binary64, y nonzero
FDiv(x, y) ==
    [neg |-> x.neg # y.neg, mag |-> DivMagnitude(x.mag, Trim(Scaled(y.mag, 2 ^ IntBits)))]

\* x * n in binary64 for an integer n, |n| < LimbBase: the exact product, rounded
FMulInt(x, n) ==
    [neg |-> x.neg # (n < 0),
     mag |-> RoundNearestEven(Tail(Scaled(x.mag, IF n < 0 THEN -n ELSE n)), FALSE)]

\* x / d for d a power of 2 that x.mag is a multiple of: exact in binary64
FDivPow2(x, d) == [neg |-> x.neg, mag |-> LongDiv(x.mag, d, 1, 0).limbs]

\* float(n) for an integer n, |n| < 2^IntBits
FromInt(n) ==
    [neg |-> n < 0,
     mag |-> [ZeroMag EXCEPT ![1] = (IF n < 0 THEN -n ELSE n) * 2 ^ (LimbBits - IntBits)]]

\* p.carry and p.limbs hold x * unit on the frame: the nearest integer, ties
\* to even
NearestInteger(p) ==
    LET point == 2 ^ (LimbBits - IntBits)          \* weight of 1 in the top limb
        whole == p.carry * 2 ^ IntBits + p.limbs[1] \div point
        frac  == [p.limbs EXCEPT ![1] = p.limbs[1] % point]
        half  == [ZeroMag EXCEPT ![1] = point \div 2]
    IN  IF LimbsLess(half, frac) \/ (frac = half /\ whole % 2 = 1)
        THEN whole + 1 ELSE whole

\* round(x, digits) and the "%.<digits>f" presentation of x, unit = 10^digits:
\* the nearest multiple of 1/unit (ties to even, on the exact binary value),
\* as a count of 1/unit
RoundTo(x, unit) ==
    IF x.neg THEN -NearestInteger(LimbsScale(x.mag, unit, 1))
    ELSE NearestInteger(LimbsScale(x.mag, unit, 1))

Round4(x) == RoundTo(x, 10000)

(***************************************************************************)
(* Gear math helpers (lines 18-22).  A module, a face width and a          *)
(* diameter are doubles; a tooth count is an integer.                      *)
(***************************************************************************)
pitch_diameter(m, t) == FMulInt(m, t)

outer_diameter(m, t) == FMulInt(m, t + 2)

\* m * (t - 2.5): t - 2.5 is exact, and the product is m * (2t - 5), rounded, halved
root_diameter(m, t) == FDivPow2(FMulInt(m, 2 * t - 5), 2)

\* driven / driver on integers; ZeroDivisionError when driver = 0
gear_ratio(driven, driver) ==
    IF driver = 0 THEN [raised |-> TRUE, value |-> FromInt(0)]
    ELSE [raised |-> FALSE, value |-> FDiv(FromInt(driven), FromInt(driver))]

\* m * (t1 + t2) / 2
center_distance(m, t1, t2) == FDivPow2(FMulInt(m, t1 + t2), 2)

\* the set literal of line 32
standard_modules ==
    {ParseDecimal(50), ParseDecimal(80), ParseDecimal(100), ParseDecimal(125),
     ParseDecimal(150), ParseDecimal(200), ParseDecimal(250), ParseDecimal(300),
     ParseDecimal(400), ParseDecimal(500), ParseDecimal(600), ParseDecimal(800),
     ParseDecimal(1000)}

UndercutTeeth == 17

\* ratio = w / m if m else 0
FaceWidthRatio(w, m) == IF m.mag # ZeroMag THEN FDiv(w, m) ELSE FromInt(0)

\* if ratio and not (8 <= ratio <= 12)
RatioOutsideIdeal(ratio) ==
    ratio.mag # ZeroMag /\ ~(~FLess(ratio, FromInt(8)) /\ ~FLess(FromInt(12), ratio))

\* An issue is its message template and the values interpolated in it.
Issue(msg, values) == [msg |-> msg, values |-> values]

ZeroTeethIssue == Issue("CRITICAL: Zero teeth detected - blank cylinder", <<>>)

UndercutIssue(t) == Issue("Teeth {t}<17 risks undercutting", <<t>>)

ModuleIssue(m) == Issue("Module {m} is non-standard (ISO 54)", <<m>>)

\* {ratio:.1f} is the ratio in tenths
RatioIssue(ratio) ==
    Issue("Face-width/module ratio {ratio:.1f} outside ideal 8-12", <<RoundTo(ratio, 10)>>)

\* passed as a flag of its own: a gear passes unless an issue is critical
PassedUnlessCritical(issues) ==
    \A i \in 1..Len(issues) : issues[i] # ZeroTeethIssue

Passed(issues) == Len(issues) = 0

\* lines 36-37
RatioIssues(ratio) == IF RatioOutsideIdeal(ratio) THEN <<RatioIssue(ratio)>> ELSE <<>>

\* lines 38-39
GearResult(m, t, issues) ==
    [passed |-> Passed(issues), teeth |-> t,
     pitch_diameter |-> pitch_diameter(m, t),
     outer_diameter |-> outer_diameter(m, t),
     root_diameter |-> root_diameter(m, t), issues |-> issues]

\* the four rules as one if/elif chain: only the first rule that applies is reported
verify_gear_first_rule(m, t, w) ==
    GearResult(m, t,
               IF t = 0 THEN <<ZeroTeethIssue>>
               ELSE IF 0 < t /\ t < UndercutTeeth THEN <<UndercutIssue(t)>>
               ELSE IF m \notin standard_modules THEN <<ModuleIssue(m)>>
               ELSE RatioIssues(FaceWidthRatio(w, m)))

verify_gear(m, t, w) ==
    LET zero     == IF t = 0 THEN <<ZeroTeethIssue>> ELSE <<>>
        undercut == IF 0 < t /\ t < UndercutTeeth THEN <<UndercutIssue(t)>> ELSE <<>>
        module   == IF m \notin standard_modules THEN <<ModuleIssue(m)>> ELSE <<>>
        width    == RatioIssues(FaceWidthRatio(w, m))
    IN  GearResult(m, t, zero \o undercut \o module \o width)

(***************************************************************************)
(* Assembly verification helpers (lines 46-72).                            *)
(***************************************************************************)
ToleranceGrades ==
    [press      |-> [min_interference_mm |-> ParseDecimal(1),
                     max_interference_mm |-> ParseDecimal(5)],
     transition |-> [min_clearance_mm |-> ParseDecimal(-2),
                     max_clearance_mm |-> ParseDecimal(2)],
     clearance  |-> [min_clearance_mm |-> ParseDecimal(2),
                     max_clearance_mm |-> ParseDecimal(10)]]

\* _TOLERANCE_GRADES.get(fit_type, _TOLERANCE_GRADES["clearance"])
GradeFor(grades, fit_type) ==
    IF fit_type \in DOMAIN grades THEN grades[fit_type] ELSE grades["clearance"]

\* the fit_type a result reports
ReportedFitType(fit_type) == fit_type

verify_assembly_fit(grades, shaft_dia, hole_dia, fit_type) ==
    LET diff == FSub(hole_dia, shaft_dia)
        spec == GradeFor(grades, fit_type)
        interference == FSub(shaft_dia, hole_dia)
        issues ==
            IF fit_type = "press"
            THEN (IF FLess(interference, spec.min_interference_mm)
                  THEN <<Issue("Interference {:.4f} mm below minimum", <<Round4(interference)>>)>>
                  ELSE <<>>)
                 \o
                 (IF FLess(spec.max_interference_mm, interference)
                  THEN <<Issue("Interference {:.4f} mm exceeds maximum", <<Round4(interference)>>)>>
                  ELSE <<>>)
            ELSE (IF FLess(diff, spec.min_clearance_mm)
                  THEN <<Issue("Clearance {:.4f} mm below minimum", <<Round4(diff)>>)>>
                  ELSE <<>>)
                 \o
                 (IF FLess(spec.max_clearance_mm, diff)
                  THEN <<Issue("Clearance {:.4f} mm exceeds maximum", <<Round4(diff)>>)>>
                  ELSE <<>>)
    IN  [passed |-> Passed(issues), shaft_diameter |-> shaft_dia, hole_diameter |-> hole_dia,
         fit_type |-> ReportedFitType(fit_type), actual_clearance_mm |-> Round4(diff),
         issues |-> issues]

(***************************************************************************)
(* BOM / vendor pricing helpers (lines 79-116).  A material name is a      *)
(* sequence of characters.  Prices and totals are in cents, weights in     *)
(* units of 1/4 kg.                                                        *)
(***************************************************************************)
\* the rows of _VENDOR_CATALOG: key, unit, price_usd (cents), vendor
CatalogRows ==
    {<<<<"s", "t", "e", "e", "l", "_", "r", "o", "u", "n", "d", "_", "b", "a", "r">>,
       "per_kg", 250, "MetalsDepot">>,
     <<<<"a", "l", "u", "m", "i", "n", "u", "m", "_", "6", "0", "6", "1">>,
       "per_kg", 480, "MetalsDepot">>,
     <<<<"b", "r", "a", "s", "s", "_", "3", "6", "0">>,
       "per_kg", 720, "MetalsDepot">>,
     <<<<"n", "y", "l", "o", "n", "_", "6">>,
       "per_kg", 500, "McMaster-Carr">>,
     <<<<"b", "e", "a", "r", "i", "n", "g", "_", "6", "0", "8", "z", "z">>,
       "each", 125, "McMaster-Carr">>,
     <<<<"b", "e", "a", "r", "i", "n", "g", "_", "6", "0", "0", "1">>,
       "each", 340, "McMaster-Carr">>,
     <<<<"m", "3", "_", "s", "o", "c", "k", "e", "t", "_", "c", "a", "p">>,
       "per_100", 450, "McMaster-Carr">>,
     <<<<"m", "5", "_", "s", "o", "c", "k", "e", "t", "_", "c", "a", "p">>,
       "per_100", 780, "McMaster-Carr">>,
     <<<<"d", "o", "w", "e", "l", "_", "p", "i", "n", "_", "3", "m", "m">>,
       "per_50", 600, "McMaster-Carr">>,
     <<<<"r", "e", "t", "a", "i", "n", "i", "n", "g", "_", "r", "i", "n", "g", "_", "8", "m", "m">>,
       "per_50", 550, "McMaster-Carr">>}

VendorCatalog ==
    [k \in {r[1] : r \in CatalogRows} |->
        LET r == CHOOSE r \in CatalogRows : r[1] = k
        IN  [unit |-> r[2], price_usd |-> r[3], vendor |-> r[4]]]

\* str.lower() on the characters used here
LowerCase ==
    [A |-> "a", B |-> "b", C |-> "c", D |-> "d", E |-> "e", F |-> "f", G |-> "g", H |-> "h", I |-> "i", J |-> "j", K |-> "k", L |-> "l", M |-> "m", N |-> "n", O |-> "o", P |-> "p", Q |-> "q", R |-> "r", S |-> "s", T |-> "t", U |-> "u", V |-> "v", W |-> "w", X |-> "x", Y |-> "y", Z |-> "z"]

Lower(s) == [i \in 1..Len(s) |-> IF s[i] \in DOMAIN LowerCase THEN LowerCase[s[i]] ELSE s[i]]

\* str.replace(old, new) for single characters
Replace(s, old, new) == [i \in 1..Len(s) |-> IF s[i] = old THEN new ELSE s[i]]

\* a normalization that leaves hyphens alone
NormalizeSpacesOnly(material) == Replace(Lower(material), " ", "_")

\* item.get("material", "").lower().replace(" ", "_").replace("-", "_")
Normalize(material) == Replace(Replace(Lower(material), " ", "_"), "-", "_")

\* round(n/d, 2) in cents: nearest, ties to even
RoundHalfEven(n, d) ==
    LET q == n \div d
        r == n % d
    IN  IF 2 * r > d \/ (2 * r = d /\ q % 2 = 1) THEN q + 1 ELSE q

DefaultQuantity == 1

\* weight_kg defaults to 1.0: four quarters
DefaultWeight == 4

\* a line total that multiplies by the weight whatever the unit
LineTotalByWeight(catalog, qty, weight) ==
    RoundHalfEven(catalog.price_usd * weight * qty, 4)

\* lines 106-111
LineTotal(catalog, qty, weight) ==
    IF catalog.unit = "per_kg" THEN RoundHalfEven(catalog.price_usd * weight * qty, 4)
    ELSE IF catalog.unit = "each" THEN catalog.price_usd * qty
    ELSE catalog.price_usd * qty

\* lines 101-102: {**item, "unit_price": "N/A", ...}
UnresolvedLine(item) ==
    [item |-> item, unit_price |-> "N/A", line_total |-> "N/A", vendor |-> "unknown",
     note |-> Issue("Material '{}' not in catalog", item.material)]

\* lines 113-115: {**item, "unit_price_usd": ..., ...}
PricedLine(item, catalog, line_total) ==
    [item |-> item, unit_price_usd |-> catalog.price_usd, unit |-> catalog.unit,
     line_total_usd |-> line_total, vendor |-> catalog.vendor]

RECURSIVE BomLoopFailFast(_, _, _, _, _)
\* a loop that stops at the first material it cannot resolve
BomLoopFailFast(vendor_catalog, items, i, bom_lines, total) ==
    IF i > Len(items) THEN [bom |-> bom_lines, total_usd |-> total]
    ELSE LET item == items[i]
             mat  == Replace(Replace(Lower(Get(item.material, <<>>)), " ", "_"), "-", "_")
         IN  IF mat \notin DOMAIN vendor_catalog
             THEN [bom |-> Append(bom_lines, UnresolvedLine(item)), total_usd |-> total]
             ELSE LET catalog    == vendor_catalog[mat]
                      qty        == Get(item.quantity, DefaultQuantity)
                      weight     == Get(item.weight_kg, DefaultWeight)
                      line_total == IF catalog.unit = "per_kg"
                                    THEN RoundHalfEven(catalog.price_usd * weight * qty, 4)
                                    ELSE catalog.price_usd * qty
                  IN  BomLoopFailFast(vendor_catalog, items, i + 1,
                                      Append(bom_lines, PricedLine(item, catalog, line_total)),
                                      total + line_total)

RECURSIVE BomLoop(_, _, _, _, _)
\* the for loop of generate_bom from item i on, with the lines and total so far
BomLoop(vendor_catalog, items, i, bom_lines, total) ==
    IF i > Len(items) THEN [bom |-> bom_lines, total_usd |-> total]
    ELSE LET item == items[i]
             mat  == Normalize(Get(item.material, <<>>))
         IN  IF mat \notin DOMAIN vendor_catalog
             THEN BomLoop(vendor_catalog, items, i + 1,
                          Append(bom_lines, UnresolvedLine(item)), total)
             ELSE LET catalog    == vendor_catalog[mat]
                      qty        == Get(item.quantity, DefaultQuantity)
                      weight     == Get(item.weight_kg, DefaultWeight)
                      line_total == LineTotal(catalog, qty, weight)
                  IN  BomLoop(vendor_catalog, items, i + 1,
                              Append(bom_lines, PricedLine(item, catalog, line_total)),
                              total + line_total)

generate_bom(vendor_catalog, items) == BomLoop(vendor_catalog, items, 1, <<>>, 0)

\* the caller's items after generate_bom: each line is a new dict, no item is assigned to
ItemsAfterCall(items, result) == items

\* a catalog that remembers the first material of a request under a placeholder entry
CatalogAfterCallCaching(vendor_catalog, items) ==
    IF items = <<>> THEN vendor_catalog
    ELSE LET mat == Replace(Replace(Lower(Get(items[1].material, <<>>)), " ", "_"), "-", "_")
         IN  [k \in DOMAIN vendor_catalog \cup {mat} |->
                 IF k \in DOMAIN vendor_catalog THEN vendor_catalog[k]
                 ELSE [unit |-> "each", price_usd |-> 0, vendor |-> "unknown"]]

\* _VENDOR_CATALOG after generate_bom: it is only read
CatalogAfterCall(vendor_catalog, items) == vendor_catalog

(***************************************************************************)
(* Mathematical specification helper (lines 123-150).  A rounded length    *)
(* is a count of 1/10000 mm.  base_circle_diameter_mm, circular_pitch_mm   *)
(* and tooth_thickness_mm (cos and pi) are left out of the sheet.          *)
(***************************************************************************)
DefaultPressureAngle == 20

math_spec(module, num_teeth, face_width, pressure_angle_deg) ==
    LET pd        == pitch_diameter(module, num_teeth)
        od        == outer_diameter(module, num_teeth)
        rd        == root_diameter(module, num_teeth)
        addendum  == module
        dedendum  == FDivPow2(FMulInt(module, 5), 4)        \* 1.25 * module
        clearance == FDivPow2(module, 4)                    \* 0.25 * module
    IN  [module |-> module, num_teeth |-> num_teeth,
         pressure_angle_deg |-> pressure_angle_deg,
         pitch_diameter_mm |-> Round4(pd),
         outer_diameter_mm |-> Round4(od),
         root_diameter_mm |-> Round4(rd),
         addendum_mm |-> Round4(addendum),
         dedendum_mm |-> Round4(dedendum),
         clearance_mm |-> Round4(clearance),
         face_width_mm |-> face_width,
         face_width_module_ratio |-> RoundTo(FaceWidthRatio(face_width, module), 100)]

(***************************************************************************)
(* MCP tool handler call_tool (lines 227-295).  A response is a payload,   *)
(* a text, or the exception the handler raised.                            *)
(***************************************************************************)
Payload(body) == [kind |-> "payload", body |-> body]

Raised(error) == [kind |-> "raised", body |-> error]

DefaultConeAngle == 45

DefaultSpiderTeeth == 10

\* the smallest side gear that does not undercut
SideGearTeethNoUndercut == UndercutTeeth

DefaultSideGearTeeth == 16

\* args.get("module", 2.0), in units of 1/20 mm
DefaultModule == 40

\* a module or face width arrives as a decimal literal, here a count of
\* 1/20 mm, and is a double in args
Twentieths(k) == ParseDecimal(5 * k)

\* lines 233-238, with v = verify_gear(m, t, w)
spur_gear_payload(m, t, w, v) ==
    Payload([success |-> v.passed, component |-> "spur_gear",
             dimensions |-> [pitch_diameter |-> pitch_diameter(m, t),
                             outer_diameter |-> outer_diameter(m, t)],
             specification |-> math_spec(m, t, w, DefaultPressureAngle),
             verification |-> v])

spur_gear_checked(m, t, w) == spur_gear_payload(m, t, w, verify_gear(m, t, w))

spur_gear(a) ==
    spur_gear_checked(Twentieths(a.module), a.num_teeth, Twentieths(a.face_width))

\* lines 243-248, with v = verify_gear(m, t, w)
bevel_gear_payload(m, t, w, cone_angle, v) ==
    Payload([success |-> v.passed, component |-> "bevel_gear",
             cone_angle |-> cone_angle,
             specification |-> math_spec(m, t, w, DefaultPressureAngle),
             verification |-> v])

bevel_gear_checked(m, t, w, cone_angle) ==
    bevel_gear_payload(m, t, w, cone_angle, verify_gear(m, t, w))

bevel_gear(a) ==
    bevel_gear_checked(Twentieths(a.module), a.num_teeth, Twentieths(a.face_width),
                       Get(a.cone_angle, DefaultConeAngle))

\* all(v["passed"] for v in verifications.values())
AllPassed(verifications) == \A g \in DOMAIN verifications : verifications[g].passed

\* lines 256-261
Verifications(m, ring, pinion, spider, side) ==
    [ring_gear    |-> verify_gear(m, ring, FMulInt(m, 10)),
     pinion       |-> verify_gear(m, pinion, FMulInt(m, 10)),
     spider_gears |-> verify_gear(m, spider, FMulInt(m, 8)),
     side_gears   |-> verify_gear(m, side, FMulInt(m, 8))]

\* lines 262-266; {ratio:.2f} is the ratio in hundredths
differential_payload(ratio, verifications) ==
    Payload([success |-> AllPassed(verifications), component |-> "differential",
             gear_ratio |-> RoundTo(ratio.value, 100),
             verifications |-> verifications])

\* gear_ratio(ring, pinion) of line 255 raises before any gear is verified
differential_checked(ratio, m, ring, pinion, spider, side) ==
    IF ratio.raised THEN Raised("ZeroDivisionError")
    ELSE differential_payload(ratio, Verifications(m, ring, pinion, spider, side))

differential(a) ==
    differential_checked(gear_ratio(a.ring_gear_teeth, a.pinion_teeth),
                         Twentieths(a.module), a.ring_gear_teeth, a.pinion_teeth,
                         Get(a.spider_teeth, DefaultSpiderTeeth),
                         Get(a.side_gear_teeth, DefaultSideGearTeeth))

\* lines 272-275; {ratio:.3f} is the ratio in thousandths
gear_ratio_payload(ratio, m, driven, driver) ==
    IF ratio.raised THEN Raised("ZeroDivisionError")
    ELSE Payload([gear_ratio |-> RoundTo(ratio.value, 1000),
                  center_distance_mm |-> center_distance(m, driven, driver)])

calculate_gear_ratio(a) ==
    gear_ratio_payload(gear_ratio(a.driven_teeth, a.driver_teeth),
                       Twentieths(Get(a.module, DefaultModule)),
                       a.driven_teeth, a.driver_teeth)

math_spec_tool(a) ==
    Payload([specification |-> math_spec(Twentieths(a.module), a.num_teeth,
                                         Twentieths(a.face_width),
                                         Get(a.pressure_angle, DefaultPressureAngle))])

\* shaft_diameter and hole_diameter arrive as decimal literals (hundredths of
\* a millimetre) and are doubles in args
verify_assembly(grades, a) ==
    Payload(verify_assembly_fit(grades, ParseDecimal(a.shaft_diameter),
                                ParseDecimal(a.hole_diameter),
                                Get(a.fit_type, "clearance")))

bom_tool(vendor_catalog, a) == Payload(generate_bom(vendor_catalog, a.items))

\* line 295: no branch of call_tool matches the name
unknown_tool(name) == [kind |-> "text", body |-> Issue("Unknown tool: {name}", <<name>>)]

\* the caller's argument object once call_tool has returned or raised
ArgsAfterCall(name, a, result) ==
    IF name = "cad_generate_bom" /\ result.kind = "payload"
    THEN [a EXCEPT !.items = ItemsAfterCall(a.items, result.body)]
    ELSE a

(***************************************************************************)
(* The inputs.                                                             *)
(***************************************************************************)
MaxTeeth == 20

MaxGap == 12

MaxQuantity == 3

MaxWeight == 6

MaxItems == 3

MaxSince == 2

\* the ISO 54 modules 0.5 ... 10.0, 0, and the non-standard 0.7, 0.75, 7.0 and 11.0
GearModules == {10, 16, 20, 25, 30, 40, 50, 60, 80, 100, 120, 160, 200} \cup {0, 14, 15, 140, 220}

\* tooth counts around the rules' thresholds 0 and 17
GearTeeth == {-1, 0, 1, 16, 17, MaxTeeth}

\* 0 and 7, 8, 12 and 13 times the modules 0.7, 0.8 and 2.0
FaceWidths == {0} \cup {k * m : k \in {7, 8, 12, 13}, m \in {14, 16, 40}}

FewTeeth == {0, 10, 20}

\* the modules 0, 0.7, 0.8, 2.0 and 11.0
FewModules == {0, 14, 16, 40, 220}

Optional(S) == {<<>>} \cup {<<x>> : x \in S}

SpurArgs ==
    [module : GearModules, num_teeth : GearTeeth, face_width : FaceWidths]

BevelArgs ==
    [module : FewModules, num_teeth : FewTeeth, face_width : FaceWidths,
     cone_angle : Optional({30})]

MathSpecArgs ==
    [module : FewModules, num_teeth : FewTeeth, face_width : FaceWidths,
     pressure_angle : Optional({25})]

DifferentialArgs ==
    [module : GearModules, ring_gear_teeth : {0, 40}, pinion_teeth : {0, 17},
     spider_teeth : Optional({0, 20}), side_gear_teeth : Optional({18})]

GearRatioArgs ==
    [driver_teeth : FewTeeth, driven_teeth : {0, 20, 40}, module : Optional({20})]

\* shaft diameters in hundredths of a millimetre; the hole is within MaxGap of the shaft
ShaftDiameters == {799, 800, 803, 1000, 1002, 1005, 1599}

FitTypes == {"press", "transition", "clearance"}

AssemblyArgs ==
    {[shaft_diameter |-> s, hole_diameter |-> s + d, fit_type |-> f] :
        s \in ShaftDiameters, d \in (-MaxGap)..MaxGap,
        f \in Optional(FitTypes \cup {"interference"})}

MaterialNames ==
    {<<"s", "t", "e", "e", "l", "_", "r", "o", "u", "n", "d", "_", "b", "a", "r">>,
     <<"S", "t", "e", "e", "l", " ", "R", "o", "u", "n", "d", " ", "B", "a", "r">>,
     <<"s", "t", "e", "e", "l", "-", "r", "o", "u", "n", "d", "-", "b", "a", "r">>,
     <<"S", "T", "E", "E", "L", "_", "R", "O", "U", "N", "D", "_", "B", "A", "R">>,
     <<"S", "t", "e", "e", "l", "-", "R", "o", "u", "n", "d", " ", "B", "a", "r">>,
     <<"s", "t", "e", "e", "l", ".", "r", "o", "u", "n", "d", ".", "b", "a", "r">>,
     <<"s", "t", "e", "e", "l", "r", "o", "u", "n", "d", "b", "a", "r">>,
     <<"a", "l", "u", "m", "i", "n", "u", "m", "_", "6", "0", "6", "1">>,
     <<"A", "l", "u", "m", "i", "n", "u", "m", " ", "6", "0", "6", "1">>,
     <<"b", "r", "a", "s", "s", "_", "3", "6", "0">>,
     <<"B", "R", "A", "S", "S", "-", "3", "6", "0">>,
     <<"n", "y", "l", "o", "n", "_", "6">>,
     <<"N", "y", "l", "o", "n", " ", "6">>,
     <<"n", "y", "l", "o", "n", "-", "6">>,
     <<"N", "Y", "L", "O", "N", "_", "6">>,
     <<"n", "y", "l", "o", "n", "6">>,
     <<"b", "e", "a", "r", "i", "n", "g", "_", "6", "0", "8", "z", "z">>,
     <<"B", "e", "a", "r", "i", "n", "g", " ", "6", "0", "8", "Z", "Z">>,
     <<"b", "e", "a", "r", "i", "n", "g", "_", "6", "0", "0", "1">>,
     <<"B", "e", "a", "r", "i", "n", "g", "-", "6", "0", "0", "1">>,
     <<"m", "3", "_", "s", "o", "c", "k", "e", "t", "_", "c", "a", "p">>,
     <<"M", "3", " ", "S", "o", "c", "k", "e", "t", " ", "C", "a", "p">>,
     <<"m", "5", "_", "s", "o", "c", "k", "e", "t", "_", "c", "a", "p">>,
     <<"m", "5", "-", "s", "o", "c", "k", "e", "t", "-", "c", "a", "p">>,
     <<"d", "o", "w", "e", "l", "_", "p", "i", "n", "_", "3", "m", "m">>,
     <<"D", "o", "w", "e", "l", " ", "P", "i", "n", " ", "3", "m", "m">>,
     <<"r", "e", "t", "a", "i", "n", "i", "n", "g", "_", "r", "i", "n", "g", "_", "8", "m", "m">>,
     <<"R", "e", "t", "a", "i", "n", "i", "n", "g", "-", "R", "i", "n", "g", " ", "8", "m", "m">>,
     <<"u", "n", "o", "b", "t", "a", "i", "n", "i", "u", "m">>,
     <<"U", "n", "o", "b", "t", "a", "i", "n", "i", "u", "m">>,
     <<>>}

\* one item with every material, quantity and weight
PricedItems ==
    [part : {"shaft"}, material : Optional(MaterialNames),
     quantity : Optional(0..MaxQuantity), weight_kg : Optional(1..MaxWeight)]

NamedItem(name) == [part |-> "widget", material |-> <<name>>, quantity |-> <<>>, weight_kg |-> <<>>]

\* the items of the longer batches
BatchItems ==
    {[part |-> "shaft", material |-> <<<<"S", "t", "e", "e", "l", " ", "R", "o", "u", "n", "d", " ", "B", "a", "r">>>>,
      quantity |-> <<2>>, weight_kg |-> <<6>>],
     [part |-> "bearing", material |-> <<<<"b", "e", "a", "r", "i", "n", "g", "_", "6", "0", "8", "z", "z">>>>,
      quantity |-> <<3>>, weight_kg |-> <<>>],
     NamedItem(<<"u", "n", "o", "b", "t", "a", "i", "n", "i", "u", "m">>),
     [part |-> "blank", material |-> <<>>, quantity |-> <<>>, weight_kg |-> <<>>]}

BomArgs ==
    [items : {<<i>> : i \in PricedItems}
             \cup {<<NamedItem(x), NamedItem(y)>> : x \in MaterialNames, y \in MaterialNames}
             \cup UNION {[1..n -> BatchItems] : n \in 0..MaxItems}]

UnknownTools == {"cad_generate_worm_gear", ""}

(***************************************************************************)
(* The server: one request at a time; nothing of a request outlives its    *)
(* response.                                                               *)
(***************************************************************************)
NoCall == [tool |-> "", sent |-> <<>>, response |-> <<>>, since |-> 0]

Init ==
    /\ pc = "idle"
    /\ tool = ""
    /\ sent = <<>>
    /\ args = <<>>
    /\ response = <<>>
    /\ TOLERANCE_GRADES = ToleranceGrades
    /\ VENDOR_CATALOG = VendorCatalog
    /\ first = NoCall

\* call_tool(name, a) runs to its return or raise, with result what the branch
\* of name produced
Call(name, a, result) ==
    /\ pc' = "done"
    /\ tool' = name
    /\ sent' = a
    /\ response' = result
    /\ args' = ArgsAfterCall(name, a, result)
    /\ VENDOR_CATALOG' = IF name = "cad_generate_bom"
                         THEN CatalogAfterCall(VENDOR_CATALOG, a.items)
                         ELSE VENDOR_CATALOG
    /\ UNCHANGED <<TOLERANCE_GRADES, first>>

\* The gear branches of call_tool read the request alone, no module global:
\* the pairs <<request, what the branch returns or raises>> are computed once
\* for the requests of the model.
SpurGearCalls == {<<a, spur_gear(a)>> : a \in SpurArgs}

BevelGearCalls == {<<a, bevel_gear(a)>> : a \in BevelArgs}

DifferentialCalls == {<<a, differential(a)>> : a \in DifferentialArgs}

GearRatioCalls == {<<a, calculate_gear_ratio(a)>> : a \in GearRatioArgs}

MathSpecCalls == {<<a, math_spec_tool(a)>> : a \in MathSpecArgs}

CallSpurGear ==
    pc = "idle" /\ \E c \in SpurGearCalls : Call("cad_generate_spur_gear", c[1], c[2])

CallBevelGear ==
    pc = "idle" /\ \E c \in BevelGearCalls : Call("cad_generate_bevel_gear", c[1], c[2])

CallDifferential ==
    pc = "idle" /\ \E c \in DifferentialCalls : Call("cad_generate_differential", c[1], c[2])

CallGearRatio ==
    pc = "idle" /\ \E c \in GearRatioCalls : Call("cad_calculate_gear_ratio", c[1], c[2])

CallMathSpec ==
    pc = "idle" /\ \E c \in MathSpecCalls : Call("cad_math_spec", c[1], c[2])

CallVerifyAssembly ==
    pc = "idle" /\ \E a \in AssemblyArgs :
                      Call("cad_verify_assembly", a, verify_assembly(TOLERANCE_GRADES, a))

CallGenerateBom ==
    pc = "idle" /\ \E a \in BomArgs :
                      Call("cad_generate_bom", a, bom_tool(VENDOR_CATALOG, a))

CallUnknownTool ==
    pc = "idle" /\ \E name \in UnknownTools : Call(name, <<>>, unknown_tool(name))

\* the response is serialized and the request's objects are discarded
Return ==
    /\ pc = "done"
    /\ pc' = "idle"
    /\ tool' = ""
    /\ sent' = <<>>
    /\ args' = <<>>
    /\ response' = <<>>
    /\ first' = IF first.tool # "" /\ first.since < MaxSince
                THEN [first EXCEPT !.since = first.since + 1]
                ELSE first
    /\ UNCHANGED <<TOLERANCE_GRADES, VENDOR_CATALOG>>

\* the calls a client keeps the response of, to compare a later identical call with
ObservedCalls ==
    {<<"cad_generate_spur_gear", [module |-> 40, num_teeth |-> 10, face_width |-> 400]>>,
     <<"cad_verify_assembly",
       [shaft_diameter |-> 1005, hole_diameter |-> 1000, fit_type |-> <<"press">>]>>,
     <<"cad_generate_bom", [items |-> <<NamedItem(<<"u", "n", "o", "b", "t", "a", "i", "n", "i", "u", "m">>)>>]>>}

\* the client keeps the call being answered; first.since counts the responses
\* returned since, up to MaxSince
Observe ==
    /\ pc = "done"
    /\ first = NoCall
    /\ <<tool, sent>> \in ObservedCalls
    /\ first' = [tool |-> tool, sent |-> sent, response |-> response, since |-> 0]
    /\ UNCHANGED <<pc, tool, sent, args, response, TOLERANCE_GRADES, VENDOR_CATALOG>>

Next ==
    \/ CallSpurGear
    \/ CallBevelGear
    \/ CallDifferential
    \/ CallGearRatio
    \/ CallMathSpec
    \/ CallVerifyAssembly
    \/ CallGenerateBom
    \/ CallUnknownTool
    \/ Return

Spec == Init /\ [][Next]_vars

SpecReplay == Init /\ [][Next \/ Observe]_vars

(***************************************************************************)
(* What the properties read from a state.                                  *)
(***************************************************************************)
Answered(name) == pc = "done" /\ tool = name

GearTools == {"cad_generate_spur_gear", "cad_generate_bevel_gear"}

DifferentialPayload == Answered("cad_generate_differential") /\ response.kind = "payload"

\* every verify_gear call of the answered request: <<module in 1/20 mm, teeth,
\* face width (the double the function receives), result>>
GearChecks ==
    IF pc = "done" /\ tool \in GearTools
    THEN {<<sent.module, sent.num_teeth, Twentieths(sent.face_width),
            response.body.verification>>}
    ELSE IF DifferentialPayload
    THEN LET m     == sent.module
             wide  == FMulInt(Twentieths(m), 10)
             small == FMulInt(Twentieths(m), 8)
             v     == response.body.verifications
         IN  {<<m, sent.ring_gear_teeth, wide, v.ring_gear>>,
              <<m, sent.pinion_teeth, wide, v.pinion>>,
              <<m, Get(sent.spider_teeth, 10), small, v.spider_gears>>,
              <<m, Get(sent.side_gear_teeth, 16), small, v.side_gears>>}
    ELSE {}

Messages(issues) == [i \in 1..Len(issues) |-> issues[i].msg]

ZeroTeethMsg == "CRITICAL: Zero teeth detected - blank cylinder"

UndercutMsg == "Teeth {t}<17 risks undercutting"

ModuleMsg == "Module {m} is non-standard (ISO 54)"

RatioMsg == "Face-width/module ratio {ratio:.1f} outside ideal 8-12"

\* ISO 54 preferred modules 0.5 ... 10.0 in units of 1/20 mm
Iso54 == {10, 16, 20, 25, 30, 40, 50, 60, 80, 100, 120, 160, 200}

\* the real number w/m (0 when m = 0), for the doubles w and m the function
\* receives, is nonzero and outside [8, 12]: w < 8m or 12m < w, exactly
RatioRuleApplies(k, w) ==
    LET m == Twentieths(k)
    IN  /\ m.mag # ZeroMag
        /\ w.mag # ZeroMag
        /\ \/ w.neg # m.neg
           \/ LimbsLess(<<0>> \o w.mag, Scaled(m.mag, 8))
           \/ LimbsLess(Scaled(m.mag, 12), <<0>> \o w.mag)

\* the messages of the rules that apply, in rule order
ExpectedMessages(m, t, w) ==
    LET rules   == <<ZeroTeethMsg, UndercutMsg, ModuleMsg, RatioMsg>>
        applies == <<t = 0, 0 < t /\ t < 17, m \notin Iso54, RatioRuleApplies(m, w)>>
        chosen  == SelectSeq(<<1, 2, 3, 4>>, LAMBDA i : applies[i])
    IN  [i \in 1..Len(chosen) |-> rules[chosen[i]]]

MeasuredHundredths ==
    IF sent.fit_type = <<"press">> THEN sent.shaft_diameter - sent.hole_diameter
    ELSE sent.hole_diameter - sent.shaft_diameter

\* the closed bounds of the fit type, in hundredths of a millimetre
FitBounds ==
    IF sent.fit_type = <<"press">> THEN <<1, 5>>
    ELSE IF sent.fit_type = <<"transition">> THEN <<-2, 2>>
    ELSE <<2, 10>>

\* C2: verify_assembly_fit records an issue exactly when the measured value
\* is strictly outside the closed bounds of its fit type, so a value on a
\* bound (shaft 10.05, hole 10.00, press) passes.
C2_IssueIffOutsideClosedBounds ==
    Answered("cad_verify_assembly") =>
        /\ response.body.issues # <<>>
             <=> (MeasuredHundredths < FitBounds[1] \/ MeasuredHundredths > FitBounds[2])
        /\ response.body.passed <=> response.body.issues = <<>>

Resolved(line) == "unit_price_usd" \in DOMAIN line

\* the characters of a name that str.lower and the two replacements identify
SameCharacter(c, d) ==
    \/ Lower(<<c>>) = Lower(<<d>>)
    \/ c \in {" ", "-", "_"} /\ d \in {" ", "-", "_"}

\* two names that differ only in letter case or in the separator used
SameMaterial(x, y) ==
    Len(x) = Len(y) /\ \A i \in 1..Len(x) : SameCharacter(x[i], y[i])

MaterialOf(item) == Get(item.material, <<>>)

\* the catalog rows whose key a material name stands for
RowsFor(item) == {r \in CatalogRows : SameMaterial(MaterialOf(item), r[1])}

RECURSIVE ResolvedTotal(_, _)
\* the sum of the line totals of the resolved lines among the first n
ResolvedTotal(lines, n) ==
    IF n = 0 THEN 0
    ELSE ResolvedTotal(lines, n - 1)
         + (IF Resolved(lines[n]) THEN lines[n].line_total_usd ELSE 0)

\* C3: generate_bom returns one line per item, in input order; an item whose
\* material is not in the catalog gives an unresolved line (N/A price and
\* total, vendor unknown, a note) and every line is the line its item gets
\* when priced alone; total_usd is the sum of the resolved line totals.
C3_BomPartialFailure ==
    Answered("cad_generate_bom") =>
        LET items == sent.items
            bom   == response.body.bom
        IN  /\ response.kind = "payload"
            /\ Len(bom) = Len(items)
            /\ \A i \in 1..Len(items) :
                 /\ bom[i].item = items[i]
                 /\ Resolved(bom[i]) <=> RowsFor(items[i]) # {}
                 /\ ~Resolved(bom[i]) =>
                      /\ bom[i].unit_price = "N/A"
                      /\ bom[i].line_total = "N/A"
                      /\ bom[i].vendor = "unknown"
                      /\ "note" \in DOMAIN bom[i]
                 /\ bom[i] = generate_bom(VendorCatalog, <<items[i]>>).bom[1]
            /\ response.body.total_usd = ResolvedTotal(bom, Len(bom))
            /\ (\A i \in 1..Len(bom) : ~Resolved(bom[i])) => response.body.total_usd = 0

\* an unresolved line first, two resolved lines after it
C3_Witness ==
    /\ Answered("cad_generate_bom")
    /\ Len(response.body.bom) = 3
    /\ ~Resolved(response.body.bom[1])
    /\ Resolved(response.body.bom[2])
    /\ Resolved(response.body.bom[3])
    /\ response.body.total_usd = 1125

\* the verification and fit results of the answered request
PassedResults ==
    {c[4] : c \in GearChecks}
    \cup (IF Answered("cad_verify_assembly") THEN {response.body} ELSE {})

\* C4: in every verify_gear and verify_assembly_fit result, passed is true
\* exactly when issues is empty.
C4_PassedIffNoIssues ==
    \A r \in PassedResults : r.passed <=> r.issues = <<>>

\* a differential with gears that pass and a gear that fails
C4_Witness ==
    /\ DifferentialPayload
    /\ \E r \in PassedResults : r.passed
    /\ \E r \in PassedResults : ~r.passed /\ Len(r.issues) = 1

\* C5: every cad_generate_differential call returns a payload with the
\* verification of all four gears, a gear with zero teeth carries the
\* zero-teeth issue, and success is true exactly when all four passed.
C5_DifferentialAlwaysAnswers ==
    Answered("cad_generate_differential") =>
        /\ response.kind = "payload"
        /\ DOMAIN response.body.verifications
             = {"ring_gear", "pinion", "spider_gears", "side_gears"}
        /\ \A c \in GearChecks :
             c[2] = 0 => \E i \in 1..Len(c[4].issues) : c[4].issues[i].msg = ZeroTeethMsg
        /\ response.body.success <=> \A c \in GearChecks : c[4].passed

\* C6: the fit_type of every fit result is press, transition or clearance.
C6_FitTypeInTable ==
    Answered("cad_verify_assembly") => response.body.fit_type \in {"press", "transition", "clearance"}

\* C7: a resolved line carries the unit and price of its catalog row; its
\* total is round(price * weight * quantity, 2) for per_kg and
\* price * quantity, whatever the weight, for every other unit; quantity
\* defaults to 1 and weight to 1.0 kg (Steel Round Bar, 2 pieces of 1.5 kg: 7.50).
C7_LineTotalByUnit ==
    Answered("cad_generate_bom") =>
        /\ \A i \in 1..Len(sent.items) :
             LET line == response.body.bom[i]
                 qty  == IF sent.items[i].quantity = <<>> THEN 1 ELSE sent.items[i].quantity[1]
                 w    == IF sent.items[i].weight_kg = <<>> THEN 4 ELSE sent.items[i].weight_kg[1]
             IN  Resolved(line) =>
                   /\ \E r \in RowsFor(sent.items[i]) :
                        line.unit = r[2] /\ line.unit_price_usd = r[3] /\ line.vendor = r[4]
                   /\ line.unit = "per_kg" =>
                        line.line_total_usd = RoundHalfEven(line.unit_price_usd * w * qty, 4)
                   /\ line.unit # "per_kg" =>
                        line.line_total_usd = line.unit_price_usd * qty
        /\ sent.items = <<[part |-> "shaft", material |-> <<<<"S", "t", "e", "e", "l", " ", "R", "o", "u", "n", "d", " ", "B", "a", "r">>>>,
                           quantity |-> <<2>>, weight_kg |-> <<6>>]>>
             => response.body.total_usd = 750

\* a unit priced "each" ordered with a weight that is not the default
C7_Witness ==
    /\ Answered("cad_generate_bom")
    /\ Len(sent.items) = 1
    /\ Resolved(response.body.bom[1])
    /\ response.body.bom[1].unit = "each"
    /\ sent.items[1].weight_kg = <<6>>
    /\ sent.items[1].quantity = <<3>>
    /\ response.body.bom[1].line_total_usd = 375

\* what a line says about the catalog entry of its material
Resolution(line) ==
    IF Resolved(line) THEN <<line.unit_price_usd, line.unit, line.vendor>> ELSE <<>>

\* C8: two items whose material names differ only in letter case or in the
\* separator (space, hyphen, underscore) get the same catalog entry or are
\* both unresolved, and normalizing a normalized name changes nothing.
C8_NormalizedLookup ==
    Answered("cad_generate_bom") =>
        LET items == sent.items
            bom   == response.body.bom
        IN  /\ \A i, j \in 1..Len(items) :
                 SameMaterial(MaterialOf(items[i]), MaterialOf(items[j]))
                    => Resolution(bom[i]) = Resolution(bom[j])
            /\ \A i \in 1..Len(items) :
                 Normalize(Normalize(MaterialOf(items[i]))) = Normalize(MaterialOf(items[i]))

\* "Steel-Round Bar" and "STEEL_ROUND_BAR" in one batch, both priced
C8_Witness ==
    /\ Answered("cad_generate_bom")
    /\ Len(sent.items) = 2
    /\ MaterialOf(sent.items[1]) = <<"S", "t", "e", "e", "l", "-", "R", "o", "u", "n", "d", " ", "B", "a", "r">>
    /\ MaterialOf(sent.items[2]) = <<"S", "T", "E", "E", "L", "_", "R", "O", "U", "N", "D", "_", "B", "A", "R">>
    /\ Resolved(response.body.bom[1])
    /\ Resolved(response.body.bom[2])

\* C9: after any sequence of calls the tolerance grades and the vendor
\* catalog are as at start, the caller's arguments are as sent, and a call
\* identical to an earlier one gets the response the earlier one got.
C9_StatelessDeterministic ==
    /\ TOLERANCE_GRADES = ToleranceGrades
    /\ VENDOR_CATALOG = VendorCatalog
    /\ pc = "done" => args = sent
    /\ (pc = "done" /\ first.tool # "" /\ tool = first.tool /\ sent = first.sent)
          => response = first.response

\* the observed BOM call is made again after other responses were returned
C9_Witness ==
    /\ Answered("cad_generate_bom")
    /\ first.tool = tool
    /\ first.sent = sent
    /\ first.since = MaxSince

HasRatioIssue(v) == \E i \in 1..Len(v.issues) : v.issues[i].msg = RatioMsg

\* C10: a differential call that omits spider_teeth or side_gear_teeth never
\* returns success = true, and with a nonzero module none of its four
\* verifications carries the face-width/module ratio issue.
C10_DifferentialDefaults ==
    Answered("cad_generate_differential") =>
        /\ (sent.spider_teeth = <<>> \/ sent.side_gear_teeth = <<>>)
              => ~(response.kind = "payload" /\ response.body.success)
        /\ (response.kind = "payload" /\ sent.module # 0)
              => \A c \in GearChecks : ~HasRatioIssue(c[4])

\* both optional tooth counts omitted; ring and pinion pass, the call fails
C10_Witness ==
    /\ DifferentialPayload
    /\ sent.spider_teeth = <<>>
    /\ sent.side_gear_teeth = <<>>
    /\ sent.module # 0
    /\ response.body.verifications.ring_gear.passed
    /\ response.body.verifications.pinion.passed
    /\ ~response.body.success

=============================================================================
